---- MODULE Spec2Model ----
(***************************************************************************)
(* rustysynthplayer (src/src/main.rs): the CC state manager, the setup     *)
(* that parses the command line into it, and the render callback that      *)
(* sends the resolved CC state to the synthesizer after every rendered     *)
(* buffer.                                                                 *)
(*                                                                         *)
(* Strings are sequences of one-character strings, so that split(':'),     *)
(* to_lowercase() and parse::<T>() are computed and not assumed.           *)
(* Option<u8> is None (-1) or the byte.                                    *)
(***************************************************************************)
EXTENDS Integers, Sequences, FiniteSets, TLC

VARIABLES
    args,              \* Args: the parsed command line (fixed after start)
    pc,                \* position of the main thread in main()
    next_param,        \* index of the next element of args.channel_params
    exit_code,         \* None while running, else the process exit code
    error,             \* which eprintln! site reported, "" when none
    cc_state_manager,  \* CcStateManager
    set_calls,         \* number of set_channel_cc calls made by the parser
    locks,             \* owner of each Mutex: "free", "main" or "audio"
    cb,                \* position of the audio thread in the render callback
    rendered,          \* number of callback invocations that have returned
    file_events,       \* control changes of the MIDI file in the buffer being processed
    synth,             \* synthesizer controller state: channel -> controller -> value
    playing,           \* the sequencer has been given the MIDI file (play)
    msgs,              \* process_midi_message calls of the last injector run
    prev_msgs,         \* those of the run before it
    runs,              \* number of injector runs so far
    writes,            \* number of direct calls of the store's setters
    last_channel,      \* <<channel, cc_type>> -> value last passed to set_channel_cc
    last_global        \* cc_type -> value last passed to set_global_cc

mainVars == <<pc, next_param, exit_code, error>>
storeVars == <<cc_state_manager, set_calls>>
audioVars == <<locks, cb, rendered, file_events>>
synthVars == <<synth, playing>>
injectVars == <<msgs, prev_msgs, runs>>
apiVars == <<writes, last_channel, last_global>>

vars == <<args, mainVars, storeVars, audioVars, synthVars, injectVars, apiVars>>

-----------------------------------------------------------------------------
(* Bounds of the model *)

MaxDirectives == 2
MaxBuffers == 2
MaxFileEvents == 1
MaxWrites == 2
MaxRuns == 1

-----------------------------------------------------------------------------
(* Option<u8> and the constants of the program *)

None == -1

CC_PAN == 10
CC_REVERB == 91
CC_CHORUS == 93
CC_VOLUME == 7
CC_MODULATION == 1
CC_EXPRESSION == 11
CC_SUSTAIN == 64
MIDI_CC_COMMAND == 176

-----------------------------------------------------------------------------
(* Strings *)

Str_volume == <<"v","o","l","u","m","e">>
Str_pan == <<"p","a","n">>
Str_reverb == <<"r","e","v","e","r","b">>
Str_chorus == <<"c","h","o","r","u","s">>
Str_modulation == <<"m","o","d","u","l","a","t","i","o","n">>
Str_expression == <<"e","x","p","r","e","s","s","i","o","n">>
Str_sustain == <<"s","u","s","t","a","i","n">>
Str_on == <<"o","n">>
Str_off == <<"o","f","f">>
Str_ON == <<"O","N">>
Str_OFF == <<"O","F","F">>

UpperCase == <<"A","B","C","D","E","F","G","H","I","J","K","L","M",
               "N","O","P","Q","R","S","T","U","V","W","X","Y","Z">>
LowerCase == <<"a","b","c","d","e","f","g","h","i","j","k","l","m",
               "n","o","p","q","r","s","t","u","v","w","x","y","z">>
Digits == <<"0","1","2","3","4","5","6","7","8","9">>

\* char::to_lowercase on ASCII
LowerChar(ch) ==
    IF \E i \in 1..26 : UpperCase[i] = ch
    THEN LowerCase[CHOOSE i \in 1..26 : UpperCase[i] = ch]
    ELSE ch

\* str::to_lowercase
to_lowercase(s) == [i \in 1..Len(s) |-> LowerChar(s[i])]

\* position of the first ':' of s, 0 when there is none
FirstColon(s) ==
    IF \E i \in 1..Len(s) : s[i] = ":"
    THEN CHOOSE i \in 1..Len(s) : s[i] = ":" /\ \A j \in 1..(i-1) : s[j] # ":"
    ELSE 0

\* str::split(':').collect(): every field, empty ones included
RECURSIVE split(_)
split(s) ==
    LET k == FirstColon(s) IN
    IF k = 0 THEN <<s>>
    ELSE <<SubSeq(s, 1, k-1)>> \o split(SubSeq(s, k+1, Len(s)))

IsDigit(ch) == \E i \in 1..10 : Digits[i] = ch
DigitValue(ch) == (CHOOSE i \in 1..10 : Digits[i] = ch) - 1

I32_MAX == 2147483647
U8_MAX == 255

Failed == [ok |-> FALSE, v |-> 0]

\* the checked accumulation of from_str_radix for a number that is not
\* negative: acc * 10 + digit for each digit, failing once it exceeds max
RECURSIVE accumulate(_, _, _)
accumulate(digits, acc, max) ==
    IF Len(digits) = 0 THEN [ok |-> TRUE, v |-> acc]
    ELSE LET d == DigitValue(Head(digits)) IN
         IF acc > (max - d) \div 10 THEN Failed
         ELSE accumulate(Tail(digits), acc * 10 + d, max)

\* the same for a negative i32: acc * 10 - digit, failing below -2^31
RECURSIVE accumulate_negative(_, _)
accumulate_negative(digits, acc) ==
    IF Len(digits) = 0 THEN [ok |-> TRUE, v |-> acc]
    ELSE LET d == DigitValue(Head(digits))
             tenth == I32_MAX \div 10
         IN  IF acc < 0 - tenth \/ (acc = 0 - tenth /\ d > 8) THEN Failed
             ELSE accumulate_negative(Tail(digits), acc * 10 - d)

AllDigits(s) == \A i \in 1..Len(s) : IsDigit(s[i])

\* str::parse::<i32>(): [ok |-> TRUE, v |-> n] or Failed.
\* An optional '+' or '-', then one or more digits, within the i32 range.
parse_i32(s) ==
    LET signed == Len(s) > 0 /\ s[1] \in {"+", "-"}
        digits == IF signed THEN SubSeq(s, 2, Len(s)) ELSE s
    IN  IF Len(digits) = 0 \/ ~AllDigits(digits) THEN Failed
        ELSE IF signed /\ s[1] = "-" THEN accumulate_negative(digits, 0)
        ELSE accumulate(digits, 0, I32_MAX)

\* str::parse::<u8>(): an optional '+' (a '-' is no digit of an unsigned
\* type), then one or more digits, at most 255.
parse_u8(s) ==
    LET signed == Len(s) > 0 /\ s[1] = "+"
        digits == IF signed THEN SubSeq(s, 2, Len(s)) ELSE s
    IN  IF Len(digits) = 0 \/ ~AllDigits(digits) THEN Failed
        ELSE accumulate(digits, 0, U8_MAX)

-----------------------------------------------------------------------------
(* ChannelCcState and CcStateManager *)

\* ChannelCcState::default(): every field None
ChannelCcState_default ==
    [volume |-> None, pan |-> None, reverb |-> None, chorus |-> None,
     modulation |-> None, expression |-> None, sustain |-> None]

\* CcStateManager::new().  channels is a function whose domain is the key set
\* of the HashMap.
CcStateManager_new ==
    [channels |-> [k \in {} |-> ChannelCcState_default],
     global_defaults |-> ChannelCcState_default]

\* the named field written into a fresh state, the other fields lost
assign_field_clobber(state, cc_type, value) ==
    LET fresh == ChannelCcState_default IN
    CASE cc_type = Str_volume     -> [fresh EXCEPT !.volume = value]
      [] cc_type = Str_pan        -> [fresh EXCEPT !.pan = value]
      [] cc_type = Str_reverb     -> [fresh EXCEPT !.reverb = value]
      [] cc_type = Str_chorus     -> [fresh EXCEPT !.chorus = value]
      [] cc_type = Str_modulation -> [fresh EXCEPT !.modulation = value]
      [] cc_type = Str_expression -> [fresh EXCEPT !.expression = value]
      [] cc_type = Str_sustain    -> [fresh EXCEPT !.sustain = value]
      [] OTHER                    -> state

\* the match on cc_type that assigns one field (the arms of set_channel_cc
\* and of set_global_cc)
assign_field(state, cc_type, value) ==
    CASE cc_type = Str_volume     -> [state EXCEPT !.volume = value]
      [] cc_type = Str_pan        -> [state EXCEPT !.pan = value]
      [] cc_type = Str_reverb     -> [state EXCEPT !.reverb = value]
      [] cc_type = Str_chorus     -> [state EXCEPT !.chorus = value]
      [] cc_type = Str_modulation -> [state EXCEPT !.modulation = value]
      [] cc_type = Str_expression -> [state EXCEPT !.expression = value]
      [] cc_type = Str_sustain    -> [state EXCEPT !.sustain = value]
      [] OTHER                    -> state

\* the match on cc_type that reads one field (the arms of get_cc_value)
read_field(state, cc_type) ==
    CASE cc_type = Str_volume     -> state.volume
      [] cc_type = Str_pan        -> state.pan
      [] cc_type = Str_reverb     -> state.reverb
      [] cc_type = Str_chorus     -> state.chorus
      [] cc_type = Str_modulation -> state.modulation
      [] cc_type = Str_expression -> state.expression
      [] cc_type = Str_sustain    -> state.sustain
      [] OTHER                    -> None

\* channels.entry(channel).or_insert_with(ChannelCcState::default): the entry
\* exists afterwards, whatever cc_type is
entry_or_insert(channels, channel) ==
    [k \in (DOMAIN channels) \cup {channel} |->
        IF k \in DOMAIN channels THEN channels[k] ELSE ChannelCcState_default]

set_channel_cc(m, channel, cc_type, value) ==
    LET inserted == entry_or_insert(m.channels, channel) IN
    [m EXCEPT !.channels =
        [inserted EXCEPT ![channel] = assign_field(inserted[channel], cc_type, value)]]

set_global_cc(m, cc_type, value) ==
    [m EXCEPT !.global_defaults = assign_field(m.global_defaults, cc_type, value)]

\* get_cc_value without the or_else when the channel has an entry
get_cc_value_entry_only(m, channel, cc_type) ==
    IF channel \in DOMAIN m.channels
    THEN read_field(m.channels[channel], cc_type)
    ELSE read_field(m.global_defaults, cc_type)

\* the channel's own field, or_else the global default's
get_cc_value(m, channel, cc_type) ==
    LET own == IF channel \in DOMAIN m.channels
               THEN read_field(m.channels[channel], cc_type)
               ELSE None
    IN  IF own # None THEN own ELSE read_field(m.global_defaults, cc_type)

\* slice::sort on a Vec<i32>: insertion of each element into the sorted prefix
RECURSIVE insert_sorted(_, _)
insert_sorted(sorted, x) ==
    IF Len(sorted) = 0 THEN <<x>>
    ELSE IF x <= Head(sorted) THEN <<x>> \o sorted
    ELSE <<Head(sorted)>> \o insert_sorted(Tail(sorted), x)

\* no sort: the keys as the map yielded them
sort_omitted(v) == v

RECURSIVE sort(_)
sort(v) ==
    IF Len(v) = 0 THEN <<>>
    ELSE insert_sorted(sort(SubSeq(v, 1, Len(v)-1)), v[Len(v)])

\* every order in which HashMap::keys() may yield the keys: the iteration
\* order of a HashMap is unspecified
KeyOrders(m) ==
    LET K == DOMAIN m.channels
        n == Cardinality(K)
    IN  {o \in [1..n -> K] : \A i, j \in 1..n : i # j => o[i] # o[j]}

\* get_active_channels returning the keys in the map's own order
get_active_channels_unsorted(m, keys) ==
    IF Len(keys) # 0 THEN keys
    ELSE [i \in 1..16 |-> i - 1]

\* get_active_channels, keys being what self.channels.keys() yielded
get_active_channels(m, keys) ==
    IF Len(keys) # 0 THEN sort(keys)
    ELSE [i \in 1..16 |-> i - 1]

-----------------------------------------------------------------------------
(* The override injector *)

\* a block that sends 0 for a value that is not set
send_one_unconditional(m, channel, cc_type, controller) ==
    LET value == get_cc_value(m, channel, cc_type) IN
    <<<<channel, MIDI_CC_COMMAND, controller, IF value # None THEN value ELSE 0>>>>

\* one `if let Some(value) = cc_state.get_cc_value(channel, t)` block: the
\* process_midi_message call it makes, if any
send_one(m, channel, cc_type, controller) ==
    LET value == get_cc_value(m, channel, cc_type) IN
    IF value # None THEN <<<<channel, MIDI_CC_COMMAND, controller, value>>>>
    ELSE <<>>

\* the loop body with the blocks in the order of the CC_* constants
send_channel_reordered(m, channel) ==
       send_one(m, channel, Str_pan, CC_PAN)
    \o send_one(m, channel, Str_reverb, CC_REVERB)
    \o send_one(m, channel, Str_chorus, CC_CHORUS)
    \o send_one(m, channel, Str_volume, CC_VOLUME)
    \o send_one(m, channel, Str_modulation, CC_MODULATION)
    \o send_one(m, channel, Str_expression, CC_EXPRESSION)
    \o send_one(m, channel, Str_sustain, CC_SUSTAIN)

\* the body of the loop over the active channels
send_channel(m, channel) ==
       send_one(m, channel, Str_volume, CC_VOLUME)
    \o send_one(m, channel, Str_expression, CC_EXPRESSION)
    \o send_one(m, channel, Str_pan, CC_PAN)
    \o send_one(m, channel, Str_modulation, CC_MODULATION)
    \o send_one(m, channel, Str_reverb, CC_REVERB)
    \o send_one(m, channel, Str_chorus, CC_CHORUS)
    \o send_one(m, channel, Str_sustain, CC_SUSTAIN)

RECURSIVE send_channels(_, _)
send_channels(m, active) ==
    IF Len(active) = 0 THEN <<>>
    ELSE send_channel(m, Head(active)) \o send_channels(m, Tail(active))

\* send_cc_messages_from_state: the sequence of process_midi_message calls
send_cc_messages_from_state(m, keys) ==
    send_channels(m, get_active_channels(m, keys))

Channels == 0..15
Controllers == {CC_VOLUME, CC_EXPRESSION, CC_PAN, CC_MODULATION,
                CC_REVERB, CC_CHORUS, CC_SUSTAIN}

\* whether msg is a control change of controller k on channel c
addresses(msg, c, k) ==
    msg[1] = c /\ msg[2] = MIDI_CC_COMMAND /\ msg[3] = k

\* Synthesizer::process_midi_message for a control change: the controller of
\* the channel takes the value; a channel the synthesizer does not have is
\* ignored
process_midi_message(s, msg) ==
    [c \in Channels |-> [k \in Controllers |->
        IF addresses(msg, c, k) THEN msg[4] ELSE s[c][k]]]

\* the calls ms made in order: each controller ends with the value of the
\* last call that addressed it
process_all(s, ms) ==
    [c \in Channels |-> [k \in Controllers |->
        LET hits == {i \in 1..Len(ms) : addresses(ms[i], c, k)} IN
        IF hits = {} THEN s[c][k]
        ELSE process_midi_message(s, ms[CHOOSE i \in hits : \A j \in hits : j <= i])[c][k]]]

\* Synthesizer::new: no controller has been written by this program yet
Synthesizer_new == [c \in Channels |-> [k \in Controllers |-> None]]

-----------------------------------------------------------------------------
(* The command line *)

Str_0_volume_64 == <<"0",":","v","o","l","u","m","e",":","6","4">>
Str_5_sustain_100 == <<"5",":","s","u","s","t","a","i","n",":","1","0","0">>
Str_3_pan_200 == <<"3",":","p","a","n",":","2","0","0">>
Str_0_volume == <<"0",":","v","o","l","u","m","e">>

\* Args with no option given
NoArgs ==
    [pan |-> None, reverb |-> None, chorus |-> None, volume |-> None,
     modulation |-> None, expression |-> None, sustain |-> <<>>,
     channel_params |-> <<>>]

\* the global options of the runs explored: none given; some given; all
\* given; a sustain option in mixed case; one that is no token at all.  Option<String> is a
\* sequence of no or one string.
GlobalOptions ==
    { NoArgs,
      [NoArgs EXCEPT !.volume = 100, !.pan = 0, !.sustain = <<Str_on>>],
      [NoArgs EXCEPT !.pan = 10, !.reverb = 20, !.chorus = 30, !.volume = 40,
                     !.modulation = 50, !.expression = 60, !.sustain = <<Str_OFF>>],
      [NoArgs EXCEPT !.sustain = <<<<"O","n">>>>],
      [NoArgs EXCEPT !.sustain = <<<<"x">>>>] }

PlayDirectives ==
    {Str_0_volume_64, Str_5_sustain_100, Str_3_pan_200, Str_0_volume}

RECURSIVE SeqsUpTo(_, _)
SeqsUpTo(S, n) ==
    IF n = 0 THEN {<<>>}
    ELSE LET shorter == SeqsUpTo(S, n - 1) IN
         shorter \cup {Append(q, x) : q \in {r \in shorter : Len(r) = n - 1}, x \in S}

PlayArgs ==
    {[g EXCEPT !.channel_params = ds] :
        g \in GlobalOptions, ds \in SeqsUpTo(PlayDirectives, MaxDirectives)}

-----------------------------------------------------------------------------
(* Setup: main() up to run_output_device *)

valid_params == {Str_volume, Str_pan, Str_reverb, Str_chorus,
                 Str_modulation, Str_expression, Str_sustain}

Ok(channel, param_type, value) ==
    [error |-> "", channel |-> channel, param_type |-> param_type, value |-> value]
Err(kind) ==
    [error |-> kind, channel |-> 0, param_type |-> <<>>, value |-> 0]

\* parts[0].parse::<i32>() and its match: the channel, or None when the
\* process exits
parse_channel(field) ==
    LET r == parse_i32(field) IN
    IF r.ok /\ r.v >= 0 /\ r.v < 16 THEN r.v ELSE None

\* a sustain value that is kept as written, 64 and above included
parse_sustain_value_uncoerced(value_str) ==
    LET low == to_lowercase(value_str)
        r == parse_u8(value_str)
    IN  IF low = Str_on THEN 127
        ELSE IF low = Str_off THEN 0
        ELSE IF r.ok THEN r.v
        ELSE None

\* the value of a sustain directive, None when the process exits
parse_sustain_value(value_str) ==
    LET low == to_lowercase(value_str)
        r == parse_u8(value_str)
    IN  IF low = Str_on THEN 127
        ELSE IF low = Str_off THEN 0
        ELSE IF r.ok /\ r.v >= 64 THEN 127
        ELSE IF r.ok THEN r.v
        ELSE None

\* a value parsed as a byte without the check against 127
parse_cc_value_unchecked(value_str) ==
    LET r == parse_u8(value_str) IN
    IF r.ok THEN r.v ELSE None

\* the value of any other directive, None when the process exits
parse_cc_value(value_str) ==
    LET r == parse_u8(value_str) IN
    IF r.ok /\ r.v <= 127 THEN r.v ELSE None

\* one iteration of `for param_str in &args.channel_params` up to its
\* set_channel_cc call.  The error names the eprintln! that precedes
\* exit(1): the CHANNEL:PARAM:VALUE format, the channel number, the
\* parameter type, the value.
parse_channel_param(param_str) ==
    LET parts == split(param_str) IN
    IF Len(parts) # 3 THEN Err("MalformedDirective")
    ELSE LET channel == parse_channel(parts[1])
             param_type == to_lowercase(parts[2])
             value_str == parts[3]
         IN  IF channel = None THEN Err("InvalidChannel")
             ELSE IF param_type \notin valid_params THEN Err("UnknownParameter")
             ELSE LET value == IF param_type = Str_sustain
                               THEN parse_sustain_value(value_str)
                               ELSE parse_cc_value(value_str)
                  IN  IF value = None THEN Err("InvalidValue")
                      ELSE Ok(channel, param_type, value)

\* the built-in default written whether or not the option was given
global_or_default_only(option, default) == default

\* `if let Some(x) = args.x { set_global_cc(x) } else { set_global_cc(d) }`
global_or(option, default) == IF option # None THEN option ELSE default

\* the six numeric global defaults
apply_global_options(m, a) ==
    LET m1 == set_global_cc(m,  Str_pan, global_or(a.pan, 64))
        m2 == set_global_cc(m1, Str_reverb, global_or(a.reverb, 0))
        m3 == set_global_cc(m2, Str_chorus, global_or(a.chorus, 0))
        m4 == set_global_cc(m3, Str_volume, global_or(a.volume, 100))
        m5 == set_global_cc(m4, Str_modulation, global_or(a.modulation, 0))
    IN  set_global_cc(m5, Str_expression, global_or(a.expression, 127))

\* the match on args.sustain.as_deref(): the value, None when the process
\* exits
global_sustain_value(sustain) ==
    IF sustain = <<>> THEN 0
    ELSE IF sustain[1] = Str_on \/ sustain[1] = Str_ON THEN 127
    ELSE IF sustain[1] = Str_off \/ sustain[1] = Str_OFF THEN 0
    ELSE None

Running == exit_code = None

LockNames == {"sequencer", "left", "right", "cc_state"}

EmptyMap == [x \in {} |-> None]

InitCommon ==
    /\ next_param = 1
    /\ exit_code = None
    /\ error = ""
    /\ cc_state_manager = CcStateManager_new
    /\ set_calls = 0
    /\ locks = [l \in LockNames |-> "free"]
    /\ cb = "idle"
    /\ rendered = 0
    /\ file_events = <<>>
    /\ synth = Synthesizer_new
    /\ playing = FALSE
    /\ msgs = <<>>
    /\ prev_msgs = <<>>
    /\ runs = 0
    /\ writes = 0
    /\ last_channel = EmptyMap
    /\ last_global = EmptyMap

Init ==
    /\ args \in PlayArgs
    /\ pc = "load"
    /\ InitCommon

\* opening and parsing the SoundFont and the MIDI file, Synthesizer::new
MainLoad ==
    /\ Running /\ pc = "load"
    /\ \E outcome \in {"ok", "file_error", "synth_error"} :
         \/ /\ outcome = "ok"
            /\ pc' = "globals"
            /\ UNCHANGED <<exit_code, error>>
         \/ /\ outcome = "file_error"
            /\ pc' = "exited" /\ exit_code' = 1 /\ error' = "FileError"
         \/ /\ outcome = "synth_error"
            /\ pc' = "exited" /\ exit_code' = 101 /\ error' = "SynthesizerPanic"
    /\ UNCHANGED <<args, next_param, storeVars, audioVars, synthVars, injectVars, apiVars>>

MainGlobals ==
    /\ Running /\ pc = "globals"
    /\ cc_state_manager' = apply_global_options(cc_state_manager, args)
    /\ pc' = "sustain"
    /\ UNCHANGED <<args, next_param, exit_code, error, set_calls,
                   audioVars, synthVars, injectVars, apiVars>>

MainGlobalSustain ==
    /\ Running /\ pc = "sustain"
    /\ LET sustain_value == global_sustain_value(args.sustain) IN
         \/ /\ sustain_value = None
            /\ pc' = "exited" /\ exit_code' = 1 /\ error' = "InvalidSustain"
            /\ UNCHANGED cc_state_manager
         \/ /\ sustain_value # None
            /\ cc_state_manager' = set_global_cc(cc_state_manager, Str_sustain, sustain_value)
            /\ pc' = "directives"
            /\ UNCHANGED <<exit_code, error>>
    /\ UNCHANGED <<args, next_param, set_calls, audioVars, synthVars, injectVars, apiVars>>

\* a directive that fails validation is skipped, and the loop goes on
MainDirective_skip_invalid ==
    /\ Running /\ pc = "directives"
    /\ next_param <= Len(args.channel_params)
    /\ \E r \in {parse_channel_param(args.channel_params[next_param])} :
         \/ /\ r.error # ""
            /\ error' = r.error
            /\ next_param' = next_param + 1
            /\ UNCHANGED <<cc_state_manager, set_calls, pc, exit_code>>
         \/ /\ r.error = ""
            /\ cc_state_manager' =
                 set_channel_cc(cc_state_manager, r.channel, r.param_type, r.value)
            /\ set_calls' = set_calls + 1
            /\ next_param' = next_param + 1
            /\ UNCHANGED <<pc, exit_code, error>>
    /\ UNCHANGED <<args, audioVars, synthVars, injectVars, apiVars>>

MainDirective ==
    /\ Running /\ pc = "directives"
    /\ next_param <= Len(args.channel_params)
    /\ \E r \in {parse_channel_param(args.channel_params[next_param])} :
         \/ /\ r.error # ""
            /\ pc' = "exited" /\ exit_code' = 1 /\ error' = r.error
            /\ UNCHANGED <<cc_state_manager, set_calls, next_param>>
         \/ /\ r.error = ""
            /\ cc_state_manager' =
                 set_channel_cc(cc_state_manager, r.channel, r.param_type, r.value)
            /\ set_calls' = set_calls + 1
            /\ next_param' = next_param + 1
            /\ UNCHANGED <<pc, exit_code, error>>
    /\ UNCHANGED <<args, audioVars, synthVars, injectVars, apiVars>>

\* the loop is over; MidiFileSequencer::new and the two Arc<Mutex<_>>
MainDirectivesDone ==
    /\ Running /\ pc = "directives"
    /\ next_param > Len(args.channel_params)
    /\ pc' = "play_lock"
    /\ UNCHANGED <<args, next_param, exit_code, error, storeVars,
                   audioVars, synthVars, injectVars, apiVars>>

-----------------------------------------------------------------------------
(* Playback: the rest of main() and the render callback *)

\* the control changes of the MIDI file that one render may process
FileChannels == {0, 1}
FileControllers == {CC_VOLUME, CC_SUSTAIN}
FileValues == {1}
FileEvents ==
    {<<c, MIDI_CC_COMMAND, k, v>> : c \in FileChannels, k \in FileControllers,
                                    v \in FileValues}

\* `let mut seq = sequencer.lock().unwrap();` in the block around play
MainLockSequencer ==
    /\ Running /\ pc = "play_lock"
    /\ locks["sequencer"] = "free"
    /\ locks' = [locks EXCEPT !["sequencer"] = "main"]
    /\ pc' = "play"
    /\ UNCHANGED <<args, next_param, exit_code, error, storeVars, cb, rendered,
                   file_events, synthVars, injectVars, apiVars>>

\* seq.play(&midi_file, false)
MainPlay ==
    /\ Running /\ pc = "play"
    /\ locks["sequencer"] = "main"
    /\ playing' = TRUE
    /\ pc' = "play_unlock"
    /\ UNCHANGED <<args, next_param, exit_code, error, storeVars, audioVars,
                   synth, injectVars, apiVars>>

\* the end of the block drops the guard
MainUnlockSequencer ==
    /\ Running /\ pc = "play_unlock"
    /\ locks' = [locks EXCEPT !["sequencer"] = "free"]
    /\ pc' = "register"
    /\ UNCHANGED <<args, next_param, exit_code, error, storeVars, cb, rendered,
                   file_events, synthVars, injectVars, apiVars>>

\* the buffers, the clones, run_output_device(params, closure); main then
\* sleeps for the length of the MIDI file
MainRunOutputDevice ==
    /\ Running /\ pc = "register"
    /\ pc' = "sleep"
    /\ UNCHANGED <<args, next_param, exit_code, error, storeVars, audioVars,
                   synthVars, injectVars, apiVars>>

\* the sleep is over and main returns: the device is dropped and the callback
\* is not invoked again
MainReturn ==
    /\ Running /\ pc = "sleep"
    /\ pc' = "done"
    /\ exit_code' = 0
    /\ UNCHANGED <<args, next_param, error, storeVars, audioVars,
                   synthVars, injectVars, apiVars>>

\* the sequencer guard dropped right after render
dropped_sequencer_after_render == {"sequencer"}

\* the guards the callback drops once the sequencer has rendered: none
\* (seq lives to the end of the closure)
dropped_after_render == {}

\* the sequencer's guard dropped together with the store's, ahead of the
\* interleave
dropped_sequencer_after_inject == {"cc_state", "sequencer"}

\* the guards the callback drops after the injector: drop(cc_state_guard)
dropped_after_inject == {"cc_state"}

\* the closure returning with the sequencer's guard still alive
dropped_at_return_leaking == {"right", "left"}

\* the guards dropped when the closure returns: right_buf, left_buf, seq
dropped_at_return == {"right", "left", "sequencer"}

release(ls, names) == [l \in LockNames |-> IF l \in names THEN "free" ELSE ls[l]]

CbStep(from, to) == cb = from /\ cb' = to

\* the output device invokes the closure: sequencer_clone.lock().unwrap()
CbLockSequencer ==
    /\ pc = "sleep" /\ rendered < MaxBuffers
    /\ CbStep("idle", "seq_locked")
    /\ locks["sequencer"] = "free"
    /\ locks' = [locks EXCEPT !["sequencer"] = "audio"]
    /\ UNCHANGED <<args, mainVars, storeVars, rendered, file_events,
                   synthVars, injectVars, apiVars>>

\* left_clone.lock().unwrap()
CbLockLeft ==
    /\ CbStep("seq_locked", "left_locked")
    /\ locks["left"] = "free"
    /\ locks' = [locks EXCEPT !["left"] = "audio"]
    /\ UNCHANGED <<args, mainVars, storeVars, rendered, file_events,
                   synthVars, injectVars, apiVars>>

\* the injector run as soon as the buffers are locked, ahead of the render
CbLockRight_inject_first ==
    /\ CbStep("left_locked", "right_locked")
    /\ locks["right"] = "free"
    /\ locks' = [locks EXCEPT !["right"] = "audio"]
    /\ \E keys \in KeyOrders(cc_state_manager) :
       \E sent \in {send_cc_messages_from_state(cc_state_manager, keys)} :
         /\ msgs' = sent
         /\ synth' = process_all(synth, sent)
    /\ prev_msgs' = msgs
    /\ runs' = runs + 1
    /\ UNCHANGED <<args, mainVars, storeVars, rendered, file_events,
                   playing, apiVars>>

\* right_clone.lock().unwrap()
CbLockRight ==
    /\ CbStep("left_locked", "right_locked")
    /\ locks["right"] = "free"
    /\ locks' = [locks EXCEPT !["right"] = "audio"]
    /\ UNCHANGED <<args, mainVars, storeVars, rendered, file_events,
                   synthVars, injectVars, apiVars>>

\* seq.render(left, right): the sequencer hands the control changes of the
\* MIDI file that fall into this buffer to its synthesizer
CbRender ==
    /\ CbStep("right_locked", "rendered")
    /\ \E events \in SeqsUpTo(FileEvents, MaxFileEvents) :
         LET due == IF playing THEN events ELSE <<>> IN
         /\ file_events' = due
         /\ synth' = process_all(synth, due)
    /\ locks' = release(locks, dropped_after_render)
    /\ UNCHANGED <<args, mainVars, storeVars, rendered, playing, injectVars, apiVars>>

\* cc_state_clone.lock().unwrap()
CbLockCcState ==
    /\ CbStep("rendered", "cc_locked")
    /\ locks["cc_state"] = "free"
    /\ locks' = [locks EXCEPT !["cc_state"] = "audio"]
    /\ UNCHANGED <<args, mainVars, storeVars, rendered, file_events,
                   synthVars, injectVars, apiVars>>

\* one run of send_cc_messages_from_state on the store and the synthesizer.
\* The &mut Synthesizer it writes through is cast from a shared reference;
\* the calls are modelled as taking effect, which is what the build does.
Inject ==
    /\ \E keys \in KeyOrders(cc_state_manager) :
       \E sent \in {send_cc_messages_from_state(cc_state_manager, keys)} :
         /\ msgs' = sent
         /\ synth' = process_all(synth, sent)
    /\ prev_msgs' = msgs
    /\ runs' = runs + 1

\* the injector's calls reaching a copy of the synthesizer, not the
\* sequencer's own
CbInject_on_copy ==
    /\ CbStep("cc_locked", "injected")
    /\ \E keys \in KeyOrders(cc_state_manager) :
         msgs' = send_cc_messages_from_state(cc_state_manager, keys)
    /\ prev_msgs' = msgs
    /\ runs' = runs + 1
    /\ UNCHANGED <<args, mainVars, storeVars, locks, rendered, file_events,
                   synthVars, apiVars>>

\* the injector run emptying the store it has read
CbInject_clearing_store ==
    /\ CbStep("cc_locked", "injected")
    /\ Inject
    /\ cc_state_manager' = CcStateManager_new
    /\ UNCHANGED <<args, mainVars, set_calls, locks, rendered, file_events,
                   playing, apiVars>>

\* unsafe { send_cc_messages_from_state(&*cc_state_guard, &*seq) }
CbInject ==
    /\ CbStep("cc_locked", "injected")
    /\ Inject
    /\ UNCHANGED <<args, mainVars, storeVars, locks, rendered, file_events,
                   playing, apiVars>>

\* drop(cc_state_guard)
CbDropCcState ==
    /\ CbStep("injected", "cc_dropped")
    /\ locks' = release(locks, dropped_after_inject)
    /\ UNCHANGED <<args, mainVars, storeVars, rendered, file_events,
                   synthVars, injectVars, apiVars>>

\* the loop that interleaves left_buf and right_buf into data
CbInterleave ==
    /\ CbStep("cc_dropped", "interleaved")
    /\ UNCHANGED <<args, mainVars, storeVars, locks, rendered, file_events,
                   synthVars, injectVars, apiVars>>

\* the closure returns
CbReturn ==
    /\ CbStep("interleaved", "idle")
    /\ locks' = release(locks, dropped_at_return)
    /\ rendered' = rendered + 1
    /\ file_events' = <<>>
    /\ UNCHANGED <<args, mainVars, storeVars, synthVars, injectVars, apiVars>>

Setup ==
    \/ MainLoad \/ MainGlobals \/ MainGlobalSustain
    \/ MainDirective \/ MainDirectivesDone

Playback ==
    \/ MainLockSequencer \/ MainPlay \/ MainUnlockSequencer
    \/ MainRunOutputDevice \/ MainReturn

Callback ==
    \/ CbLockSequencer \/ CbLockLeft \/ CbLockRight \/ CbRender
    \/ CbLockCcState \/ CbInject \/ CbDropCcState \/ CbInterleave \/ CbReturn

Next == Setup \/ Playback \/ Callback

\* the whole program, from the parsed command line to the end of playback
Spec == Init /\ [][Next]_vars

\* the command lines of the runs whose scheduling is explored: every
\* directive list with no global option, and a rejected --sustain option
FairArgs ==
    {a \in PlayArgs :
        \/ [a EXCEPT !.channel_params = <<>>] = NoArgs
        \/ a.sustain # <<>> /\ a.volume = None /\ a.channel_params = <<>>}

InitFair ==
    /\ args \in FairArgs
    /\ pc = "load"
    /\ InitCommon

\* the whole program with the threads of the playback phase scheduled: the
\* main thread goes on whenever it can, and so does the audio thread, which
\* the output device lets finish the callback it is in when main returns
SpecFair == InitFair /\ [][Next]_vars /\ WF_vars(Playback) /\ WF_vars(Callback)

-----------------------------------------------------------------------------
(* Setup alone, over a wider range of directives and sustain options *)

\* CHANNEL fields: "0", "2", "3", "5", "15", "16", "-1", "+3", "x", "", "99999999999"
ChannelFields ==
    {<<"0">>,
     <<"2">>,
     <<"3">>,
     <<"5">>,
     <<"1","5">>,
     <<"1","6">>,
     <<"-","1">>,
     <<"+","3">>,
     <<"x">>,
     <<>>,
     <<"9","9","9","9","9","9","9","9","9","9","9">>}

\* PARAM fields: "volume", "pan", "reverb", "chorus", "modulation", "expression", "sustain", "Sustain", "PAN", "loudness", ""
ParamFields ==
    {<<"v","o","l","u","m","e">>,
     <<"p","a","n">>,
     <<"r","e","v","e","r","b">>,
     <<"c","h","o","r","u","s">>,
     <<"m","o","d","u","l","a","t","i","o","n">>,
     <<"e","x","p","r","e","s","s","i","o","n">>,
     <<"s","u","s","t","a","i","n">>,
     <<"S","u","s","t","a","i","n">>,
     <<"P","A","N">>,
     <<"l","o","u","d","n","e","s","s">>,
     <<>>}

\* VALUE fields: "0", "30", "50", "63", "64", "100", "127", "128", "200", "255", "256", "300", "-1", "-0", "+5", "on", "OFF", "On", "abc", ""
ValueFields ==
    {<<"0">>,
     <<"3","0">>,
     <<"5","0">>,
     <<"6","3">>,
     <<"6","4">>,
     <<"1","0","0">>,
     <<"1","2","7">>,
     <<"1","2","8">>,
     <<"2","0","0">>,
     <<"2","5","5">>,
     <<"2","5","6">>,
     <<"3","0","0">>,
     <<"-","1">>,
     <<"-","0">>,
     <<"+","5">>,
     <<"o","n">>,
     <<"O","F","F">>,
     <<"O","n">>,
     <<"a","b","c">>,
     <<>>}

\* directives that do not have three fields: "", "0:volume", "0:volume:64:1", "volume", "5:sustain:on:"
OtherDirectives ==
    {<<>>,
     <<"0",":","v","o","l","u","m","e">>,
     <<"0",":","v","o","l","u","m","e",":","6","4",":","1">>,
     <<"v","o","l","u","m","e">>,
     <<"5",":","s","u","s","t","a","i","n",":","o","n",":">>}

\* values of --sustain: "on", "ON", "off", "OFF", "On", "oFF", "100", "30", "abc", ""
SustainOptions ==
    {<<"o","n">>,
     <<"O","N">>,
     <<"o","f","f">>,
     <<"O","F","F">>,
     <<"O","n">>,
     <<"o","F","F">>,
     <<"1","0","0">>,
     <<"3","0">>,
     <<"a","b","c">>,
     <<>>}

SetupDirectives ==
    {c \o <<":">> \o q \o <<":">> \o v :
        c \in ChannelFields, q \in ParamFields, v \in ValueFields}
    \cup OtherDirectives

SetupArgs ==
    {[NoArgs EXCEPT !.channel_params = <<d>>] : d \in SetupDirectives}
    \cup {[NoArgs EXCEPT !.sustain = <<o>>] : o \in SustainOptions}

InitSetup ==
    /\ args \in SetupArgs
    /\ pc = "load"
    /\ InitCommon

\* main() from the parsed command line to the end of the directive loop
SpecSetup == InitSetup /\ [][Setup]_vars

-----------------------------------------------------------------------------
(* The store and the injector alone: setter calls, then injector runs *)

Str_bogus == <<"b","o","g","u","s">>

StoreChannels == {0, 7, 15}
StoreTypes == valid_params \cup {Str_bogus}
StoreValues == {5, 100}

put(f, key, value) ==
    [k \in (DOMAIN f) \cup {key} |-> IF k = key THEN value ELSE f[k]]

\* cc_state_manager.set_channel_cc(channel, cc_type, value)
StoreSetChannel ==
    /\ writes < MaxWrites /\ runs = 0
    /\ \E channel \in StoreChannels, cc_type \in StoreTypes, value \in StoreValues :
         /\ cc_state_manager' = set_channel_cc(cc_state_manager, channel, cc_type, value)
         /\ last_channel' = IF cc_type \in valid_params
                            THEN put(last_channel, <<channel, cc_type>>, value)
                            ELSE last_channel
    /\ writes' = writes + 1
    /\ UNCHANGED <<args, mainVars, set_calls, audioVars, synthVars, injectVars,
                   last_global>>

\* cc_state_manager.set_global_cc(cc_type, value)
StoreSetGlobal ==
    /\ writes < MaxWrites /\ runs = 0
    /\ \E cc_type \in StoreTypes, value \in StoreValues :
         /\ cc_state_manager' = set_global_cc(cc_state_manager, cc_type, value)
         /\ last_global' = IF cc_type \in valid_params
                           THEN put(last_global, cc_type, value)
                           ELSE last_global
    /\ writes' = writes + 1
    /\ UNCHANGED <<args, mainVars, set_calls, audioVars, synthVars, injectVars,
                   last_channel>>

\* send_cc_messages_from_state(&cc_state_manager, &sequencer)
StoreInject ==
    /\ runs < MaxRuns
    /\ Inject
    /\ UNCHANGED <<args, mainVars, storeVars, audioVars, playing, apiVars>>

InitStore ==
    /\ args = NoArgs
    /\ pc = "api"
    /\ InitCommon

NextStore == StoreSetChannel \/ StoreSetGlobal \/ StoreInject

\* a fresh CcStateManager under any calls of its setters, then the injector
SpecStore == InitStore /\ [][NextStore]_vars

-----------------------------------------------------------------------------
(* What the properties below speak of *)

\* the seven cc types as the fields of a ChannelCcState, each with its MIDI
\* controller number, in the order the injector is to send them
SendOrder ==
    <<[type |-> "volume", controller |-> 7],
      [type |-> "expression", controller |-> 11],
      [type |-> "pan", controller |-> 10],
      [type |-> "modulation", controller |-> 1],
      [type |-> "reverb", controller |-> 91],
      [type |-> "chorus", controller |-> 93],
      [type |-> "sustain", controller |-> 64]>>

Rank(controller) ==
    IF \E i \in 1..7 : SendOrder[i].controller = controller
    THEN CHOOSE i \in 1..7 : SendOrder[i].controller = controller
    ELSE 0

\* per_channel[c][t] if present, else global_default[t], else absent
Resolved(c, t) ==
    LET m == cc_state_manager IN
    IF c \in DOMAIN m.channels /\ m.channels[c][t] # None
    THEN m.channels[c][t]
    ELSE m.global_defaults[t]

\* the active channel set
ActiveSet ==
    IF DOMAIN cc_state_manager.channels = {} THEN 0..15
    ELSE DOMAIN cc_state_manager.channels

\* the messages of the last injector run that set controller k of channel c
MessagesFor(c, k) ==
    {i \in 1..Len(msgs) : msgs[i][1] = c /\ msgs[i][2] = 176 /\ msgs[i][3] = k}

\* C1: resolve(c,t) is the value last written by set_channel(c,t,_) if there
\* was one, else the value last written by set_global(t,_) if there was one,
\* else absent; a channel with an entry for another type only gets the global
\* value.
C1_ResolveReturnsLatest ==
    \A c \in Channels, t \in valid_params :
        get_cc_value(cc_state_manager, c, t) =
            IF <<c, t>> \in DOMAIN last_channel THEN last_channel[<<c, t>>]
            ELSE IF t \in DOMAIN last_global THEN last_global[t]
            ELSE None

\* a channel that has an entry for another type resolves t to the global value
C1_Witness ==
    \E c \in Channels, t \in valid_params, u \in valid_params :
        /\ u # t
        /\ <<c, u>> \in DOMAIN last_channel
        /\ <<c, t>> \notin DOMAIN last_channel
        /\ t \in DOMAIN last_global
        /\ get_cc_value(cc_state_manager, c, t) = last_global[t]

\* C2: with a global default volume of 100 and the single directive
\* "0:volume:64", one injector run emits exactly one volume message for
\* channel 0, with value 64, and exactly one volume message with value 100
\* for each of the channels 1 to 15.
C2_EndToEnd ==
    (/\ runs >= 1
     /\ args.channel_params = <<Str_0_volume_64>>
     /\ cc_state_manager.global_defaults.volume = 100)
    => /\ Cardinality(MessagesFor(0, 7)) = 1
       /\ \A i \in MessagesFor(0, 7) : msgs[i][4] = 64
       /\ \A c \in 1..15 :
            /\ Cardinality(MessagesFor(c, 7)) = 1
            /\ \A i \in MessagesFor(c, 7) : msgs[i][4] = 100

\* C3: active_channels() is 0,1,...,15 when per_channel has no keys, and
\* otherwise the distinct keys of per_channel in strictly ascending order,
\* whatever order the map yields its keys in.
C3_ActiveChannels ==
    \A keys \in KeyOrders(cc_state_manager) :
        LET a == get_active_channels(cc_state_manager, keys)
            K == DOMAIN cc_state_manager.channels
        IN  IF K = {} THEN a = <<0, 1, 2, 3, 4, 5, 6, 7, 8, 9, 10, 11, 12, 13, 14, 15>>
            ELSE /\ Len(a) = Cardinality(K)
                 /\ {a[i] : i \in 1..Len(a)} = K
                 /\ \A i \in 1..(Len(a) - 1) : a[i] < a[i + 1]

\* the injector has run over a store with several channel entries
C3_Witness ==
    /\ runs >= 1
    /\ Cardinality(DOMAIN cc_state_manager.channels) >= 2
    /\ msgs # <<>>

\* the callback is past its override step, or has returned
AfterOverride ==
    \/ cb \in {"injected", "cc_dropped", "interleaved"}
    \/ cb = "idle" /\ rendered >= 1

\* C4: at the end of every render callback, for every active channel c and
\* every cc type t whose resolved value is present, the synthesizer's
\* controller for (c,t) holds resolve(c,t), whatever the MIDI file set.
C4_OverridesWin ==
    AfterOverride =>
        \A c \in ActiveSet, i \in 1..7 :
            Resolved(c, SendOrder[i].type) # None
            => synth[c][SendOrder[i].controller] = Resolved(c, SendOrder[i].type)

\* the MIDI file set a controller of an active channel to another value in
\* this buffer, and the override has replaced it
C4_Witness ==
    /\ cb = "injected"
    /\ \E e \in 1..Len(file_events), i \in 1..7 :
         /\ file_events[e][1] \in ActiveSet
         /\ file_events[e][3] = SendOrder[i].controller
         /\ Resolved(file_events[e][1], SendOrder[i].type) # None
         /\ file_events[e][4] # Resolved(file_events[e][1], SendOrder[i].type)
         /\ synth[file_events[e][1]][file_events[e][3]]
              = Resolved(file_events[e][1], SendOrder[i].type)

\* C5: from the lock taken before render until the injector has finished,
\* the audio thread holds the sequencer lock, so no other thread can reach
\* the sequencer between the render step and the override step.
C5_SequencerLockHeld ==
    cb \in {"seq_locked", "left_locked", "right_locked", "rendered", "cc_locked"}
    => locks["sequencer"] = "audio"

\* between render and override, after the MIDI file's events were processed
C5_Witness ==
    /\ cb = "rendered"
    /\ file_events # <<>>
    /\ locks["sequencer"] = "audio"

\* C6: one injector run emits, for the active channels in ascending order and
\* within a channel in the order volume, expression, pan, modulation, reverb,
\* chorus, sustain, exactly one message (channel, 0xB0, controller, resolve)
\* per pair whose resolved value is present.
C6_InjectorMessages ==
    runs >= 1 =>
        /\ \A i \in 1..Len(msgs) :
             /\ msgs[i][1] \in ActiveSet
             /\ msgs[i][2] = 176
             /\ Rank(msgs[i][3]) # 0
             /\ msgs[i][4] = Resolved(msgs[i][1], SendOrder[Rank(msgs[i][3])].type)
        /\ \A i, j \in 1..Len(msgs) :
             i < j => \/ msgs[i][1] < msgs[j][1]
                      \/ /\ msgs[i][1] = msgs[j][1]
                         /\ Rank(msgs[i][3]) < Rank(msgs[j][3])
        /\ \A c \in ActiveSet, r \in 1..7 :
             Resolved(c, SendOrder[r].type) # None
             => Cardinality(MessagesFor(c, SendOrder[r].controller)) = 1

\* a run over two channel entries, seven messages each
C6_Witness ==
    /\ runs >= 1
    /\ Cardinality(DOMAIN cc_state_manager.channels) = 2
    /\ Len(msgs) = 14

\* C7: the injector emits no message for a pair whose resolved value is
\* absent and none for a channel outside active_channels().
C7_NoSpuriousMessage ==
    runs >= 1 =>
        \A i \in 1..Len(msgs) :
            /\ msgs[i][1] \in ActiveSet
            /\ Rank(msgs[i][3]) # 0
            /\ Resolved(msgs[i][1], SendOrder[Rank(msgs[i][3])].type) # None

\* a run that sent something, skipped an unset pair of an active channel and
\* left a channel out
C7_Witness ==
    /\ runs >= 1
    /\ msgs # <<>>
    /\ ActiveSet # 0..15
    /\ \E c \in ActiveSet, r \in 1..7 : Resolved(c, SendOrder[r].type) = None

\* C8: two injector runs in succession on the unchanged store emit the same
\* message sequence, so every render callback emits the same sequence.
C8_Idempotent ==
    runs >= 2 => msgs = prev_msgs

\* a second run over a store with several channel entries
C8_Witness ==
    /\ runs >= 2
    /\ Cardinality(DOMAIN cc_state_manager.channels) >= 2
    /\ msgs # <<>>

-----------------------------------------------------------------------------
(* Directives, as the properties below read them *)

Colons(d) == {i \in 1..Len(d) : d[i] = ":"}
FieldCount(d) == Cardinality(Colons(d)) + 1
FirstOf(S) == CHOOSE i \in S : \A j \in S : i <= j
LastOf(S) == CHOOSE i \in S : \A j \in S : j <= i

\* the three fields of a directive with two colons
Field1(d) == SubSeq(d, 1, FirstOf(Colons(d)) - 1)
Field2(d) == SubSeq(d, FirstOf(Colons(d)) + 1, LastOf(Colons(d)) - 1)
Field3(d) == SubSeq(d, LastOf(Colons(d)) + 1, Len(d))

HasSign(s) == Len(s) > 0 /\ s[1] \in {"+", "-"}
Unsigned(s) == IF HasSign(s) THEN SubSeq(s, 2, Len(s)) ELSE s

\* a decimal integer: an optional sign and one or more digits
IsInteger(s) == Len(Unsigned(s)) > 0 /\ AllDigits(Unsigned(s))

\* the digits without their leading zeros
Significant(s) ==
    LET nz == {i \in 1..Len(s) : s[i] # "0"} IN
    IF nz = {} THEN <<>> ELSE SubSeq(s, FirstOf(nz), Len(s))

\* the magnitude of an integer, 1000 standing for everything from 1000 up
Magnitude(s) ==
    LET g == Significant(Unsigned(s)) IN
    IF Len(g) > 3 THEN 1000
    ELSE IF Len(g) = 3
         THEN 100 * DigitValue(g[1]) + 10 * DigitValue(g[2]) + DigitValue(g[3])
    ELSE IF Len(g) = 2 THEN 10 * DigitValue(g[1]) + DigitValue(g[2])
    ELSE IF Len(g) = 1 THEN DigitValue(g[1])
    ELSE 0

IntValue(s) == IF HasSign(s) /\ s[1] = "-" THEN 0 - Magnitude(s) ELSE Magnitude(s)

IsIntegerIn(s, lo, hi) == IsInteger(s) /\ IntValue(s) >= lo /\ IntValue(s) <= hi

\* the first check a directive fails, "" when it fails none of them
FirstFailure(d) ==
    IF FieldCount(d) # 3 THEN "MalformedDirective"
    ELSE IF ~IsIntegerIn(Field1(d), 0, 15) THEN "InvalidChannel"
    ELSE IF to_lowercase(Field2(d)) \notin valid_params THEN "UnknownParameter"
    ELSE IF to_lowercase(Field2(d)) # Str_sustain /\ ~IsIntegerIn(Field3(d), 0, 127)
         THEN "InvalidValue"
    ELSE ""

\* the run has a single directive and the parser is through with it
Directive == args.channel_params[1]
DirectiveHandled ==
    /\ Len(args.channel_params) = 1
    /\ \/ next_param = 2
       \/ pc = "exited" /\ error \in {"MalformedDirective", "InvalidChannel",
                                       "UnknownParameter", "InvalidValue"}

RejectedWith(kind) ==
    /\ pc = "exited" /\ exit_code = 1 /\ error = kind
    /\ set_calls = 0
    /\ DOMAIN cc_state_manager.channels = {}

\* C9: a directive is rejected with the first failing check in the order
\* field count, channel, parameter name, value of a non-sustain parameter;
\* "3:pan:200" is InvalidValue, "16:volume:100" InvalidChannel,
\* "2:loudness:50" UnknownParameter; a rejected directive makes no
\* set_channel call.
C9_FirstFailingCheck ==
    DirectiveHandled =>
        /\ FirstFailure(Directive) # "" => RejectedWith(FirstFailure(Directive))
        /\ Directive = Str_3_pan_200 => RejectedWith("InvalidValue")
        /\ Directive = <<"1","6",":","v","o","l","u","m","e",":","1","0","0">>
             => RejectedWith("InvalidChannel")
        /\ Directive = <<"2",":","l","o","u","d","n","e","s","s",":","5","0">>
             => RejectedWith("UnknownParameter")
        /\ pc = "exited" => set_calls = 0

\* "3:pan:200" has been rejected for its value
C9_Witness ==
    /\ DirectiveHandled
    /\ Directive = Str_3_pan_200
    /\ RejectedWith("InvalidValue")

\* a directive for the sustain of a channel in 0..15
SustainDirective ==
    /\ FieldCount(Directive) = 3
    /\ IsIntegerIn(Field1(Directive), 0, 15)
    /\ to_lowercase(Field2(Directive)) = Str_sustain

\* the directive stored v as the sustain of its channel
SustainStored(v) ==
    /\ next_param = 2 /\ set_calls = 1 /\ pc # "exited"
    /\ DOMAIN cc_state_manager.channels = {IntValue(Field1(Directive))}
    /\ cc_state_manager.channels[IntValue(Field1(Directive))].sustain = v

IsByte(s) == IsInteger(s) /\ s[1] # "-" /\ IntValue(s) <= 255

-----------------------------------------------------------------------------
(* The command line, as the properties below read it *)

\* a sustain value the rules accept: a token in any case, or a byte
SustainValueOk(v) ==
    to_lowercase(v) \in {Str_on, Str_off} \/ IsByte(v)

\* the value a valid directive asks for
DirectiveValue(d) ==
    LET v == Field3(d) IN
    IF to_lowercase(Field2(d)) # Str_sustain THEN IntValue(v)
    ELSE IF to_lowercase(v) = Str_on THEN 127
    ELSE IF to_lowercase(v) = Str_off THEN 0
    ELSE IF IntValue(v) >= 64 THEN 127
    ELSE IntValue(v)

\* a directive that fails one of the checks
DirectiveInvalid(d) ==
    \/ FirstFailure(d) # ""
    \/ /\ to_lowercase(Field2(d)) = Str_sustain
       /\ ~SustainValueOk(Field3(d))

\* a --sustain option that is neither a token in any case nor a number
SustainOptionInvalid ==
    /\ args.sustain # <<>>
    /\ to_lowercase(args.sustain[1]) \notin {Str_on, Str_off}
    /\ ~IsInteger(args.sustain[1])

ConfigurationInvalid ==
    \/ SustainOptionInvalid
    \/ \E i \in 1..Len(args.channel_params) : DirectiveInvalid(args.channel_params[i])

\* the output device has been given the callback
AudioStarted ==
    \/ pc \in {"sleep", "done"}
    \/ cb # "idle" \/ rendered > 0 \/ runs > 0

\* the setup has come through the directive loop
SetupDone == pc \in {"play_lock", "play", "play_unlock", "register", "sleep", "done"}

\* C11: a configuration that fails validation never gets the audio output
\* started and never exits with code 0; an error exit leaves the callback
\* unstarted; a callback only ever runs after every directive was applied.
C11_FailFast ==
    /\ ConfigurationInvalid => ~AudioStarted /\ exit_code # 0 /\ ~SetupDone
    /\ exit_code \notin {None, 0} => ~AudioStarted /\ pc = "exited"
    /\ AudioStarted =>
         /\ error = ""
         /\ next_param = Len(args.channel_params) + 1
         /\ set_calls = Len(args.channel_params)

\* a directive failed after an earlier one was written to the store, and the
\* process has exited without starting the audio output
C11_Witness ==
    /\ pc = "exited" /\ exit_code = 1
    /\ set_calls >= 1
    /\ DOMAIN cc_state_manager.channels # {}
    /\ ConfigurationInvalid
    /\ ~AudioStarted

\* the field of a ChannelCcState that a parameter name stands for
TypeOf(name) ==
    CASE name = Str_volume -> "volume"
      [] name = Str_pan -> "pan"
      [] name = Str_reverb -> "reverb"
      [] name = Str_chorus -> "chorus"
      [] name = Str_modulation -> "modulation"
      [] name = Str_expression -> "expression"
      [] name = Str_sustain -> "sustain"

OptionOr(option, default) == IF option # None THEN option ELSE default

\* C12: after a successful setup each global default is the option's value
\* when the option was given and else the built-in default (pan 64, reverb 0,
\* chorus 0, volume 100, modulation 0, expression 127, sustain 0), none is
\* unset, and a directive for (c,t) makes resolve(c,t) its value.
C12_DefaultsThenOverrides ==
    SetupDone =>
        LET g == cc_state_manager.global_defaults
            ds == args.channel_params
        IN
        /\ g.pan = OptionOr(args.pan, 64)
        /\ g.reverb = OptionOr(args.reverb, 0)
        /\ g.chorus = OptionOr(args.chorus, 0)
        /\ g.volume = OptionOr(args.volume, 100)
        /\ g.modulation = OptionOr(args.modulation, 0)
        /\ g.expression = OptionOr(args.expression, 127)
        /\ g.sustain = IF args.sustain = <<>> THEN 0
                       ELSE IF to_lowercase(args.sustain[1]) = Str_on THEN 127
                       ELSE 0
        /\ \A i \in 1..7 : g[SendOrder[i].type] # None
        /\ \A i \in 1..Len(ds) :
             (\A j \in (i + 1)..Len(ds) :
                 \/ IntValue(Field1(ds[j])) # IntValue(Field1(ds[i]))
                 \/ to_lowercase(Field2(ds[j])) # to_lowercase(Field2(ds[i])))
             => Resolved(IntValue(Field1(ds[i])), TypeOf(to_lowercase(Field2(ds[i]))))
                  = DirectiveValue(ds[i])

\* --volume 100 given, reverb left to its default, and "0:volume:64" applied
C12_Witness ==
    /\ SetupDone
    /\ args.volume = 100 /\ args.reverb = None
    /\ args.channel_params = <<Str_0_volume_64>>
    /\ cc_state_manager.global_defaults.reverb = 0
    /\ Resolved(0, "volume") = 64
    /\ Resolved(1, "volume") = 100

\* the --sustain option was given and main has come past its match
SustainOptionHandled ==
    /\ args.sustain # <<>>
    /\ pc \notin {"load", "globals", "sustain"}
    /\ error \notin {"FileError", "SynthesizerPanic"}

GlobalSustainStored(v) ==
    /\ error # "InvalidSustain"
    /\ cc_state_manager.global_defaults.sustain = v

\* C13: the --sustain option follows the value rules of a sustain directive:
\* on/off in any letter case give 127/0, an integer >= 64 gives 127, an
\* integer in 0..63 is stored as is, and only input that is neither a token
\* nor a number is rejected.
C13_AsClaimed ==
    SustainOptionHandled =>
        LET v == args.sustain[1] IN
        IF to_lowercase(v) = Str_on THEN GlobalSustainStored(127)
        ELSE IF to_lowercase(v) = Str_off THEN GlobalSustainStored(0)
        ELSE IF IsByte(v) /\ IntValue(v) >= 64 THEN GlobalSustainStored(127)
        ELSE IF IsByte(v) THEN GlobalSustainStored(IntValue(v))
        ELSE pc = "exited" /\ exit_code = 1 /\ error = "InvalidSustain"

\* the channels the setter was called for with a recognized type
WrittenChannels == {k[1] : k \in DOMAIN last_channel}

\* C14: set_channel with an unrecognized cc_type is a no-op, so the store
\* holds exactly what the calls with a recognized type wrote: the keys of
\* per_channel are the channels of those calls, every per-channel field is
\* the value last written to it or unset, and active_channels() is as those
\* calls alone leave it.
C14_AsClaimed ==
    LET m == cc_state_manager IN
    /\ DOMAIN m.channels = WrittenChannels
    /\ \A c \in DOMAIN m.channels, t \in valid_params :
         m.channels[c][TypeOf(t)] =
             IF <<c, t>> \in DOMAIN last_channel THEN last_channel[<<c, t>>]
             ELSE None
    /\ ActiveSet = IF WrittenChannels = {} THEN 0..15 ELSE WrittenChannels

\* C17: set_channel(c, t, v) with a recognized t changes only field t of
\* channel c, creating the entry if absent, and leaves every other field of
\* c, every other channel and the global default alone; set_global(t, v)
\* changes only field t of the global default and leaves per_channel and
\* active_channels() alone.  Stated of every call on every reachable store.
C17_SettersFrame ==
    LET m == cc_state_manager IN
    /\ \A c \in Channels, t \in valid_params, v \in StoreValues :
         LET n == set_channel_cc(m, c, t, v) IN
         /\ n.global_defaults = m.global_defaults
         /\ DOMAIN n.channels = DOMAIN m.channels \cup {c}
         /\ \A d \in DOMAIN m.channels \ {c} : n.channels[d] = m.channels[d]
         /\ n.channels[c][TypeOf(t)] = v
         /\ \A u \in valid_params \ {t} :
              n.channels[c][TypeOf(u)] =
                  IF c \in DOMAIN m.channels THEN m.channels[c][TypeOf(u)]
                  ELSE None
    /\ \A t \in valid_params, v \in StoreValues :
         LET g == set_global_cc(m, t, v) IN
         /\ g.channels = m.channels
         /\ g.global_defaults[TypeOf(t)] = v
         /\ \A u \in valid_params \ {t} :
              g.global_defaults[TypeOf(u)] = m.global_defaults[TypeOf(u)]
         /\ \A keys \in KeyOrders(m) :
              get_active_channels(g, keys) = get_active_channels(m, keys)

\* channel 7 was written twice, its volume and then its pan, and the entry
\* holds both; nothing else has a value
C17_Witness ==
    /\ writes = 2 /\ pc = "api"
    /\ DOMAIN cc_state_manager.channels = {7}
    /\ cc_state_manager.channels[7].volume = 5
    /\ cc_state_manager.channels[7].pan = 100
    /\ cc_state_manager.channels[7].sustain = None
    /\ cc_state_manager.global_defaults = ChannelCcState_default

\* the steps of one invocation of the callback, in order: Idle; Rendering
\* (the three locks, then render); Overriding (the store's lock, the
\* injector, the drop); Interleaving; Idle
CallbackCycle ==
    {<<"idle", "seq_locked">>, <<"seq_locked", "left_locked">>,
     <<"left_locked", "right_locked">>, <<"right_locked", "rendered">>,
     <<"rendered", "cc_locked">>, <<"cc_locked", "injected">>,
     <<"injected", "cc_dropped">>, <<"cc_dropped", "interleaved">>,
     <<"interleaved", "idle">>}

AfterInjector == {"injected", "cc_dropped", "interleaved"}

\* C15: every invocation of the callback goes Idle -> Rendering ->
\* Overriding -> Interleaving -> Idle: the callback only moves along the
\* cycle, the injector runs only in the step after the render and the store's
\* lock, once per buffer, and a buffer is complete only after the interleave.
C15_CallbackOrder ==
    [][ /\ cb' # cb => <<cb, cb'>> \in CallbackCycle
        /\ runs' # runs =>
             /\ cb = "cc_locked" /\ cb' = "injected"
             /\ runs' = runs + 1
        /\ (cb = "cc_locked" /\ cb' = "injected") => runs' = runs + 1
        /\ rendered' # rendered =>
             /\ cb = "interleaved" /\ cb' = "idle"
             /\ rendered' = rendered + 1
        /\ runs' = IF cb' \in AfterInjector THEN rendered' + 1 ELSE rendered'
      ]_vars

\* the second buffer is being interleaved: two renders, two injector runs
C15_Witness ==
    /\ cb = "interleaved"
    /\ rendered = 1 /\ runs = 2
    /\ msgs # <<>>

\* C16 as claimed: the callback has released the sequencer by the time the
\* interleave of left/right into the output buffer has completed.
C16_AsClaimed ==
    cb = "interleaved" => locks["sequencer"] # "audio"

\* C16: the callback holds the sequencer lock through the interleave, with
\* the store's lock already dropped, and releases it only when it returns.
C16_HeldThroughInterleave ==
    /\ cb \in {"cc_dropped", "interleaved"} =>
         /\ locks["sequencer"] = "audio"
         /\ locks["cc_state"] = "free"
    /\ cb = "idle" => locks["sequencer"] # "audio"

\* the interleave of the first buffer is complete, the store's lock is free
\* and the sequencer is still locked by the callback
C16_Witness ==
    /\ cb = "interleaved" /\ rendered = 0
    /\ locks["sequencer"] = "audio"
    /\ locks["cc_state"] = "free"
    /\ locks["left"] = "audio" /\ locks["right"] = "audio"

FieldNames == {SendOrder[i].type : i \in 1..7}

\* C18: every key of per_channel is in 0..15 and has at least one field
\* set, every set field of a per-channel entry and of the global default is
\* in 0..127, and every message the injector emits has its channel in 0..15
\* and its value in 0..127.
C18_StoreInRange ==
    LET m == cc_state_manager IN
    /\ \A c \in DOMAIN m.channels :
         /\ c \in 0..15
         /\ \E f \in FieldNames : m.channels[c][f] # None
         /\ \A f \in FieldNames : m.channels[c][f] \in {None} \cup 0..127
    /\ \A f \in FieldNames : m.global_defaults[f] \in {None} \cup 0..127
    /\ \A i \in 1..Len(msgs) :
         /\ msgs[i][1] \in 0..15
         /\ msgs[i][4] \in 0..127

\* "5:sustain:100" went through the parser into the store as 127 and the
\* injector has sent it to channel 5
C18_Witness ==
    /\ runs >= 1
    /\ args.channel_params = <<Str_5_sustain_100>>
    /\ DOMAIN cc_state_manager.channels = {5}
    /\ cc_state_manager.channels[5].sustain = 127
    /\ \E i \in 1..Len(msgs) : msgs[i] = <<5, MIDI_CC_COMMAND, CC_SUSTAIN, 127>>

\* the part of main that writes the store
WritingSetup == {"globals", "sustain", "directives"}

\* C19: the store is written only during setup: a step that changes it is a
\* step of the global defaults or of the directive loop, taken before the
\* callback is registered and before any buffer is rendered; no step of the
\* callback, the injector's included, changes it.
C19_WrittenOnlyInSetup ==
    [][ /\ cc_state_manager' # cc_state_manager =>
             /\ pc \in WritingSetup
             /\ cb = "idle" /\ cb' = "idle"
             /\ rendered = 0 /\ runs = 0
        /\ (cb' # cb \/ runs' # runs \/ pc \notin WritingSetup) =>
             cc_state_manager' = cc_state_manager
      ]_vars

\* two buffers were rendered and injected, and the store still holds what
\* the two directives wrote
C19_Witness ==
    /\ rendered = 2 /\ runs = 2 /\ cb = "idle"
    /\ args.channel_params = <<Str_0_volume_64, Str_5_sustain_100>>
    /\ DOMAIN cc_state_manager.channels = {0, 5}
    /\ cc_state_manager.channels[0].volume = 64
    /\ cc_state_manager.channels[5].sustain = 127

HeldBy(owner) == {l \in LockNames : locks[l] = owner}

\* the locks the callback holds at each of its positions, taken in the
\* order sequencer, left, right, cc_state
HeldAt(position) ==
    CASE position = "idle" -> {}
      [] position = "seq_locked" -> {"sequencer"}
      [] position = "left_locked" -> {"sequencer", "left"}
      [] position \in {"right_locked", "rendered"} -> {"sequencer", "left", "right"}
      [] position \in {"cc_locked", "injected"} -> LockNames
      [] position \in {"cc_dropped", "interleaved"} -> {"sequencer", "left", "right"}

LockDiscipline ==
    /\ HeldBy("audio") = HeldAt(cb)
    /\ HeldBy("main") = IF pc \in {"play", "play_unlock"} THEN {"sequencer"} ELSE {}
    /\ HeldBy("main") # {} => cb = "idle" /\ rendered = 0

AllLocksFree == \A l \in LockNames : locks[l] = "free"

\* C20: the callback takes the locks in the order sequencer, left, right,
\* cc_state and holds none when it returns; main holds the sequencer lock
\* only around play, before the callback is registered; no thread waits
\* forever for a lock: main gets the sequencer lock it asks for, and every
\* started invocation of the callback returns to idle with all locks free.
C20_DeadlockFree ==
    /\ []LockDiscipline
    /\ (pc = "play_lock") ~> (pc = "play" /\ locks["sequencer"] = "main")
    /\ (cb # "idle") ~> (cb = "idle" /\ AllLocksFree)

\* a callback has returned: it is idle again during playback with all four
\* locks free
C20_Witness ==
    /\ cb = "idle" /\ pc = "sleep"
    /\ rendered >= 1
    /\ AllLocksFree

====
